---- MODULE Spec2Model ----
(***************************************************************************)
(* Parameter management of torch.nn module trees, as exercised by the      *)
(* notebook Ch07_Deep_Learning_Computation/Parameter_Management.ipynb:     *)
(* add_module / nn.Sequential(...) (attach), Module.apply(fn) with the     *)
(* notebook's initializer functions, state_dict() (flatten), the forward   *)
(* computation net(x), the custom initializer and direct .data mutation.   *)
(*                                                                         *)
(* Python objects are modelled as a heap: a module is an identity (a       *)
(* string id), its _modules OrderedDict is children[m], a sequence of      *)
(* <<name, child id>> entries in insertion order, and the tensor of a      *)
(* Parameter lives in data[<<m, pname>>].  Two attachment points holding   *)
(* the same id hold the same Python object.                                *)
(*                                                                         *)
(* The notebook defines no module class of its own: every operation is a  *)
(* call into torch.nn, and each definition below gives what that call     *)
(* does (children() yields each child instance of one parent once, apply  *)
(* carries no visited set through its recursion, state_dict descends per  *)
(* attachment point, add_module overwrites an existing child name and     *)
(* makes no cycle check).                                                  *)
(*                                                                         *)
(* Layer shapes are scaled down: every nn.Linear is Dim -> Dim, and the    *)
(* draws of the random initializers are a few sample tensors.  A recursion *)
(* that never returns (python's RecursionError) is detected by a path      *)
(* longer than the number of modules.                                      *)
(***************************************************************************)
EXTENDS Integers, Sequences, FiniteSets, TLC

VARIABLES children, data, last

vars == <<children, data, last>>

(***************************************************************************)
(* Bounds of the model.                                                    *)
(***************************************************************************)
Dim == 2
MaxVal == 2

(***************************************************************************)
(* The module instances the notebook constructs, and their kinds.          *)
(***************************************************************************)
Sequentials == {"net", "shared"}
BiasLinears == {"fcB"}
Linears == {"fc0", "fcS", "fc4"} \cup BiasLinears
ReLUs == {"relu1", "reluS"}
Mods == Sequentials \cup Linears \cup ReLUs

NoMod == "none"

\* type(m) == nn.Linear, the test every initializer function of the notebook makes
IsLinear(m) == m \in Linears

\* m._parameters in registration order; a bias=False layer registers bias as None
ParamNames(m) ==
  IF m \in BiasLinears THEN <<"weight", "bias">>
  ELSE IF m \in Linears THEN <<"weight">>
  ELSE <<>>

Params == {<<m, "weight">> : m \in Linears} \cup {<<m, "bias">> : m \in BiasLinears}

(***************************************************************************)
(* Tensors.  A weight is a Dim x Dim matrix, a bias and an activation a    *)
(* vector of length Dim.                                                   *)
(***************************************************************************)
Rows == 1..Dim
Idx == Rows \X Rows

Fill(c) == [ij \in Idx |-> c]
FillVec(c) == [i \in Rows |-> c]

\* a sample with both signs, for the draws of the random initializers
Alt(s) == [ij \in Idx |-> IF (ij[1] + ij[2]) % 2 = 0 THEN s ELSE -s]

\* the draws of xavier_uniform_ / normal_ / the constructor that the model explores
RandomWeights == {Fill(-1), Alt(1)}

RECURSIVE SumTo(_, _)
SumTo(f, n) == IF n = 0 THEN 0 ELSE f[n] + SumTo(f, n - 1)

(***************************************************************************)
(* Module tree: _modules, children(), add_module.                          *)
(***************************************************************************)
ChildNames(m) == {children[m][i][1] : i \in 1..Len(children[m])}
ChildSet(m) == {children[m][i][2] : i \in 1..Len(children[m])}

\* Module.children(): the values of _modules in order, each instance once
\* (named_children keeps a memo set of the instances already yielded)
RECURSIVE DedupFrom(_, _, _)
DedupFrom(es, i, acc) ==
  IF i > Len(es) THEN acc
  ELSE IF \E k \in 1..Len(acc) : acc[k] = es[i][2]
       THEN DedupFrom(es, i + 1, acc)
       ELSE DedupFrom(es, i + 1, Append(acc, es[i][2]))

\* the same walk without the memo set: one entry per attachment point
ChildrenPerAttachment(m) == [i \in 1..Len(children[m]) |-> children[m][i][2]]

Children(m) == DedupFrom(children[m], 1, <<>>)

\* hasattr(self, name) for the names the model uses: a registered parameter
\* (bias is registered, as None, also when bias=False) or a child
OwnAttrs(m) == IF m \in Linears THEN {"weight", "bias"} ELSE {}
HasAttr(m, name) == name \in OwnAttrs(m) \/ name \in ChildNames(m)

\* a variant of the check below that refuses every taken name
AddModuleFailsOnAnyTakenName(p, name) == HasAttr(p, name)

\* add_module raises KeyError("attribute already exists") only when the name
\* is taken by something that is not a child
AddModuleFails(p, name) == HasAttr(p, name) /\ name \notin ChildNames(p)

\* self._modules[name] = module on an OrderedDict: a new key is appended, an
\* existing key keeps its position and takes the new value
SetItem(es, name, c) ==
  IF \E i \in 1..Len(es) : es[i][1] = name
  THEN [i \in 1..Len(es) |-> IF es[i][1] = name THEN <<name, c>> ELSE es[i]]
  ELSE Append(es, <<name, c>>)

\* python's recursion limit stands for "a path longer than the number of
\* modules": such a path repeats a module, so the recursion never returns
RecursionLimit == Cardinality(Mods) + 1

\* modules reachable from m through child links, m included
RECURSIVE ReachFrom(_, _)
ReachFrom(frontier, seen) ==
  LET next == (UNION {ChildSet(m) : m \in frontier}) \ seen
  IN IF next = {} THEN seen ELSE ReachFrom(next, seen \cup next)

Reach(m) == ReachFrom({m}, {m})

\* modules reachable from m by at least one child link
Below(m) == IF ChildSet(m) = {} THEN {} ELSE ReachFrom(ChildSet(m), ChildSet(m))

OnCycle(m) == m \in Below(m)
AcyclicFrom(root) == \A m \in Reach(root) : ~OnCycle(m)
Acyclic == \A m \in Mods : ~OnCycle(m)

(***************************************************************************)
(* Module.apply(fn):                                                       *)
(*     for module in self.children(): module.apply(fn)                     *)
(*     fn(self)                                                            *)
(* ApplyVisits gives the sequence of modules fn is called on, in call      *)
(* order, and ok = FALSE when the recursion does not return (the visits    *)
(* listed are then the modules fn reached before the RecursionError).      *)
(***************************************************************************)
RECURSIVE ApplyVisits(_, _), ApplyOver(_, _, _)
ApplyOver(cs, i, fuel) ==
  IF i > Len(cs) THEN [ok |-> TRUE, visits |-> <<>>]
  ELSE LET r == ApplyVisits(cs[i], fuel)
       IN IF ~r.ok THEN r
          ELSE LET rest == ApplyOver(cs, i + 1, fuel)
               IN [ok |-> rest.ok, visits |-> r.visits \o rest.visits]

ApplyVisits(m, fuel) ==
  IF fuel = 0 THEN [ok |-> FALSE, visits |-> <<>>]
  ELSE LET r == ApplyOver(Children(m), 1, fuel - 1)
       IN IF r.ok THEN [ok |-> TRUE, visits |-> Append(r.visits, m)] ELSE r

\* number of times fn was called on m
Count(m, visits) == Cardinality({i \in 1..Len(visits) : visits[i] = m})

(***************************************************************************)
(* Initializers.  torch.nn.init.constant_(w, c) fills w with c;            *)
(* xavier_uniform_(w) and normal_(w) overwrite w with a fresh draw.        *)
(***************************************************************************)
\* a variant of constant_ that accumulates instead of overwriting
ConstantAccumulate(w, c) == [ij \in Idx |-> w[ij] + c]

Constant_(w, c) == [ij \in Idx |-> c]

Inits == {[kind |-> "constant", c |-> 7],
          [kind |-> "xavier_uniform", c |-> 0]}

InitTensor(w, init, drawn) ==
  IF init.kind = "constant" THEN Constant_(w, init.c) ELSE drawn

\* a variant of the initializer functions that also overwrites the bias
InitFnAlsoBias(m, d, init, drawn) ==
  IF IsLinear(m)
  THEN [p \in Params |->
          IF p = <<m, "weight">> THEN InitTensor(d[p], init, drawn)
          ELSE IF p = <<m, "bias">> THEN FillVec(init.c)
          ELSE d[p]]
  ELSE d

\* init_weights / ones / init_42 / xavier_normal:
\*     if type(m) == nn.Linear: init(m.weight)
InitFn(m, d, init, drawn) ==
  IF IsLinear(m)
  THEN [d EXCEPT ![<<m, "weight">>] = InitTensor(@, init, drawn)]
  ELSE d

\* fn called on visits[1], visits[2], ... in turn; draws[m] is the draw the
\* last call on m makes
RECURSIVE RunInit(_, _, _, _, _)
RunInit(visits, i, d, init, draws) ==
  IF i > Len(visits) THEN d
  ELSE RunInit(visits, i + 1,
               InitFn(visits[i], d, init, IF IsLinear(visits[i]) THEN draws[visits[i]] ELSE Fill(0)),
               init, draws)

\* the draws an apply call can make on the Linear modules it visits
DrawsFor(visits, init) ==
  LET ls == {visits[i] : i \in 1..Len(visits)} \cap Linears
  IN IF init.kind = "constant" THEN {[m \in ls |-> Fill(init.c)]}
     ELSE [ls -> RandomWeights]

(***************************************************************************)
(* Module.state_dict(): own parameters that are not None, then             *)
(* module.state_dict(destination, prefix + name + '.') for every entry of  *)
(* _modules (no memo: one descent per attachment point).                   *)
(***************************************************************************)
RECURSIVE StateDictItems(_, _, _), StateDictOver(_, _, _, _)
StateDictOver(es, i, prefix, fuel) ==
  IF i > Len(es) THEN [ok |-> TRUE, items |-> <<>>]
  ELSE LET r == StateDictItems(es[i][2], prefix \o es[i][1] \o ".", fuel)
       IN IF ~r.ok THEN r
          ELSE LET rest == StateDictOver(es, i + 1, prefix, fuel)
               IN [ok |-> rest.ok, items |-> r.items \o rest.items]

StateDictItems(m, prefix, fuel) ==
  IF fuel = 0 THEN [ok |-> FALSE, items |-> <<>>]
  ELSE LET own == [i \in 1..Len(ParamNames(m)) |->
                     <<prefix \o ParamNames(m)[i], <<m, ParamNames(m)[i]>>>>]
           sub == StateDictOver(children[m], 1, prefix, fuel - 1)
       IN [ok |-> sub.ok, items |-> own \o sub.items]

\* the destination dict: a later write to a key replaces the earlier one
DictOf(items) ==
  [k \in {items[i][1] : i \in 1..Len(items)} |->
     items[CHOOSE i \in 1..Len(items) :
             items[i][1] = k /\ \A j \in 1..Len(items) : items[j][1] = k => j <= i][2]]

\* a variant that lists every Parameter identity once, under the first path
\* that reaches it (what named_parameters() does)
RECURSIVE KeepFirst(_, _, _)
KeepFirst(items, i, acc) ==
  IF i > Len(items) THEN acc
  ELSE IF \E k \in 1..Len(acc) : acc[k][2] = items[i][2]
       THEN KeepFirst(items, i + 1, acc)
       ELSE KeepFirst(items, i + 1, Append(acc, items[i]))

StateDictByIdentity(root) ==
  LET r == StateDictItems(root, "", RecursionLimit)
  IN [ok |-> r.ok, dict |-> DictOf(KeepFirst(r.items, 1, <<>>))]

StateDict(root) ==
  LET r == StateDictItems(root, "", RecursionLimit)
  IN [ok |-> r.ok, dict |-> DictOf(r.items)]

(***************************************************************************)
(* Forward computation net(x).  nn.Sequential.forward:                     *)
(*     for module in self: input = module(input)                           *)
(* over the values of _modules in order, one call per entry; nn.Linear     *)
(* computes W x + b, nn.ReLU max(0, x).                                    *)
(***************************************************************************)
LinearForward(m, x) ==
  [i \in Rows |->
     SumTo([j \in Rows |-> data[<<m, "weight">>][<<i, j>>] * x[j]], Dim)
     + (IF m \in BiasLinears THEN data[<<m, "bias">>][i] ELSE 0)]

ReLUForward(x) == [i \in Rows |-> IF x[i] > 0 THEN x[i] ELSE 0]

RECURSIVE Forward(_, _, _), ForwardOver(_, _, _, _)
ForwardOver(es, i, x, fuel) ==
  IF i > Len(es) THEN [ok |-> TRUE, y |-> x]
  ELSE LET r == Forward(es[i][2], x, fuel)
       IN IF ~r.ok THEN r ELSE ForwardOver(es, i + 1, r.y, fuel)

\* a variant that runs the children last to first
RECURSIVE ForwardReversed(_, _, _)
ForwardReversed(m, x, fuel) ==
  IF fuel = 0 THEN [ok |-> FALSE, y |-> x]
  ELSE IF m \in Sequentials
       THEN ForwardOver([i \in 1..Len(children[m]) |->
                           children[m][Len(children[m]) + 1 - i]], 1, x, fuel - 1)
       ELSE IF m \in Linears THEN [ok |-> TRUE, y |-> LinearForward(m, x)]
       ELSE [ok |-> TRUE, y |-> ReLUForward(x)]

Forward(m, x, fuel) ==
  IF fuel = 0 THEN [ok |-> FALSE, y |-> x]
  ELSE IF m \in Sequentials THEN ForwardOver(children[m], 1, x, fuel - 1)
       ELSE IF m \in Linears THEN [ok |-> TRUE, y |-> LinearForward(m, x)]
       ELSE [ok |-> TRUE, y |-> ReLUForward(x)]

\* whether the recursion of root(x) returns; it depends on the tree alone
RECURSIVE ForwardReturns(_, _)
ForwardReturns(m, fuel) ==
  /\ fuel > 0
  /\ m \in Sequentials =>
       \A i \in 1..Len(children[m]) : ForwardReturns(children[m][i][2], fuel - 1)

Inputs == {FillVec(1), [i \in Rows |-> IF i = 1 THEN -1 ELSE 2]}

(***************************************************************************)
(* custom(m): uniform_(m[0].weight, -10, 10), then a loop over all         *)
(* shape[0] x shape[1] entries that zeroes those with -5 <= w <= 5.        *)
(***************************************************************************)
\* the draws of uniform_(-10, 10) the model explores: every entry takes
\* every integer of [-10, 10] in some draw
CustomDraws ==
  {[ij \in Idx |-> (((ij[1] - 1) * Dim + ij[2] - 1 + k) % 21) - 10] : k \in 0..20}

\* a variant of the test with strict comparisons
CustomKeepsStrict(v) == ~(v < 5 /\ v > -5)

\* the entry survives the loop body's test
CustomKeeps(v) == ~(v <= 5 /\ v >= -5)

RECURSIVE CustomLoop(_, _, _)
CustomLoop(w, i, j) ==
  IF i > Dim THEN w
  ELSE IF j > Dim THEN CustomLoop(w, i + 1, 1)
       ELSE CustomLoop(IF CustomKeeps(w[<<i, j>>]) THEN w
                       ELSE [w EXCEPT ![<<i, j>>] = 0], i, j + 1)

(***************************************************************************)
(* State machine.  last records the most recent call and what it returned. *)
(***************************************************************************)
NoInit == [kind |-> "none", c |-> 0]
EmptyDict == [k \in {} |-> <<NoMod, "">>]

\* taken: the name passed to add_module was already an attribute of the parent;
\* again: the apply call repeats the call before it
NoLast == [op |-> "construct", root |-> NoMod, name |-> "", child |-> NoMod,
           err |-> "none", taken |-> FALSE, again |-> FALSE, init |-> NoInit, visits |-> <<>>,
           key |-> "", x |-> FillVec(0), y |-> FillVec(0), dict |-> EmptyDict,
           draw |-> Fill(0)]

\* the tensors the constructors of the layers leave behind (one possible draw)
FreshData ==
  [p \in Params |-> IF p[2] = "weight" THEN Alt(1) ELSE FillVec(1)]

\* a variant of add_module that also registers the parent in the child, as
\* a back-reference to its attachment point
AddModuleWithBackRef(p, name, c) ==
  IF AddModuleFails(p, name)
  THEN /\ last' = [NoLast EXCEPT !.op = "add_module", !.root = p, !.name = name,
                                 !.child = c, !.err = "KeyError",
                                 !.taken = HasAttr(p, name)]
       /\ UNCHANGED <<children, data>>
  ELSE /\ children' = [m \in Mods |->
                         IF m = c THEN SetItem(IF m = p THEN SetItem(children[m], name, c)
                                               ELSE children[m], "parent", p)
                         ELSE IF m = p THEN SetItem(children[m], name, c)
                         ELSE children[m]]
       /\ last' = [NoLast EXCEPT !.op = "add_module", !.root = p, !.name = name,
                                 !.child = c, !.taken = HasAttr(p, name)]
       /\ UNCHANGED data

\* parent.add_module(name, child)
AddModule(p, name, c) ==
  IF AddModuleFails(p, name)
  THEN /\ last' = [NoLast EXCEPT !.op = "add_module", !.root = p, !.name = name,
                                 !.child = c, !.err = "KeyError",
                                 !.taken = HasAttr(p, name)]
       /\ UNCHANGED <<children, data>>
  ELSE /\ children' = [children EXCEPT ![p] = SetItem(@, name, c)]
       /\ last' = [NoLast EXCEPT !.op = "add_module", !.root = p, !.name = name,
                                 !.child = c, !.taken = HasAttr(p, name)]
       /\ UNCHANGED data

\* root.apply(fn) with fn one of the notebook's initializer functions
Apply(root, init) ==
  LET r == ApplyVisits(root, RecursionLimit)
  IN \E draws \in DrawsFor(r.visits, init) :
       /\ data' = RunInit(r.visits, 1, data, init, draws)
       /\ last' = [NoLast EXCEPT !.op = "apply", !.root = root, !.init = init,
                                 !.visits = r.visits,
                                 !.again = (last.op = "apply" /\ last.root = root
                                            /\ last.init = init),
                                 !.err = IF r.ok THEN "none" ELSE "RecursionError"]
       /\ UNCHANGED children

\* root.state_dict()
StateDictCall(root) ==
  LET r == StateDict(root)
  IN /\ last' = [NoLast EXCEPT !.op = "state_dict", !.root = root,
                               !.dict = IF r.ok THEN r.dict ELSE EmptyDict,
                               !.err = IF r.ok THEN "none" ELSE "RecursionError"]
     /\ UNCHANGED <<children, data>>

\* root(x)
ForwardCall(root, x) ==
  LET ok == ForwardReturns(root, RecursionLimit)
  IN /\ last' = [NoLast EXCEPT !.op = "forward", !.root = root, !.x = x,
                               !.y = IF ok THEN Forward(root, x, RecursionLimit).y
                                     ELSE FillVec(0),
                               !.err = IF ok THEN "none" ELSE "RecursionError"]
     /\ UNCHANGED <<children, data>>

\* custom(m)
Custom(m) ==
  IF Len(children[m]) = 0
  THEN /\ last' = [NoLast EXCEPT !.op = "custom", !.root = m, !.err = "IndexError"]
       /\ UNCHANGED <<children, data>>
  ELSE IF ~IsLinear(children[m][1][2])
  THEN /\ last' = [NoLast EXCEPT !.op = "custom", !.root = m, !.err = "AttributeError"]
       /\ UNCHANGED <<children, data>>
  ELSE \E drawn \in CustomDraws :
         /\ data' = [data EXCEPT ![<<children[m][1][2], "weight">>] = CustomLoop(drawn, 1, 1)]
         /\ last' = [NoLast EXCEPT !.op = "custom", !.root = m, !.draw = drawn,
                                   !.child = children[m][1][2]]
         /\ UNCHANGED children

\* index [0][0] of a matrix, [0] of a vector
FirstIndex(p) == IF p[2] = "weight" THEN <<1, 1>> ELSE 1

\* t = root.state_dict()[key]; t += 1            (m[0].weight.data += 1)
AddOne(root) ==
  LET r == StateDict(root)
  IN /\ r.ok
     /\ \E key \in DOMAIN r.dict :
          /\ \A k \in DOMAIN data[r.dict[key]] : data[r.dict[key]][k] < MaxVal
          /\ data' = [data EXCEPT ![r.dict[key]] = [k \in DOMAIN @ |-> @[k] + 1]]
          /\ last' = [NoLast EXCEPT !.op = "add_one", !.root = root, !.key = key]
     /\ UNCHANGED children

\* t = root.state_dict()[key]; t[0][0] = 42      (m[0].weight.data[0][0] = 42)
SetFirst(root) ==
  LET r == StateDict(root)
  IN /\ r.ok
     /\ \E key \in DOMAIN r.dict :
          /\ data' = [data EXCEPT ![r.dict[key]][FirstIndex(r.dict[key])] = 42]
          /\ last' = [NoLast EXCEPT !.op = "set_first", !.root = root, !.key = key]
     /\ UNCHANGED children

(***************************************************************************)
(* Spec: modules are constructed detached and then attached, initialised,  *)
(* flattened and evaluated in any order.                                   *)
(***************************************************************************)
\* the add_module calls the model explores: any module under the Sequential
\* net (two names) or shared (one name), and the parameter name "weight"
\* under a Linear
AttachCalls ==
  ({"net"} \X {"a", "b"} \X {"net", "shared", "fc0", "fcB"})
  \cup ({"shared"} \X {"a"} \X {"net", "shared", "fc0", "fcB"})
  \cup ({"fcB"} \X {"weight"} \X {"fc0"})
Roots == {"net", "shared"}

Init ==
  /\ children = [m \in Mods |-> <<>>]
  /\ data = FreshData
  /\ last = NoLast

Next ==
  \/ \E call \in AttachCalls : AddModule(call[1], call[2], call[3])
  \/ \E root \in Roots, init \in Inits : Apply(root, init)
  \/ \E root \in Roots : StateDictCall(root)
  \/ \E root \in Roots, x \in Inputs : ForwardCall(root, x)

Spec == Init /\ [][Next]_vars

(***************************************************************************)
(* nn.Sequential(m0, m1, ...): add_module(str(idx), module) for each       *)
(* argument in turn.                                                       *)
(***************************************************************************)
IdxName == <<"0", "1", "2", "3", "4">>

RECURSIVE SequentialOf(_, _, _)
SequentialOf(args, i, es) ==
  IF i > Len(args) THEN es
  ELSE SequentialOf(args, i + 1, SetItem(es, IdxName[i], args[i]))

(***************************************************************************)
(* SpecTied: the network of the "Tied Parameters" cell, in which the block *)
(* shared is passed twice to nn.Sequential, followed by any sequence of    *)
(* apply calls, state_dict calls, forward evaluations and direct writes.   *)
(***************************************************************************)
TiedChildren ==
  [m \in Mods |->
     IF m = "shared"
     THEN SetItem(SetItem(<<>>, "linear_shared", "fcS"), "relu_shared", "reluS")
     ELSE IF m = "net"
     THEN SequentialOf(<<"fc0", "relu1", "shared", "shared", "fc4">>, 1, <<>>)
     ELSE <<>>]

TiedInits == Inits \cup {[kind |-> "constant", c |-> 1]}

InitTied ==
  /\ children = TiedChildren
  /\ data = FreshData
  /\ last = NoLast

NextTied ==
  \/ \E root \in Roots, init \in TiedInits : Apply(root, init)
  \/ \E root \in Roots : StateDictCall(root)
  \/ \E root \in Roots, x \in Inputs : ForwardCall(root, x)
  \/ \E root \in Roots : AddOne(root)
  \/ \E root \in Roots : SetFirst(root)

SpecTied == InitTied /\ [][NextTied]_vars

(***************************************************************************)
(* SpecCustom: the "Custom Initialization" cells: m = nn.Sequential(       *)
(* nn.Linear(5, 5, bias=False)), custom(m), m.state_dict(), and the direct *)
(* writes m[0].weight.data += 1 and m[0].weight.data[0][0] = 42.           *)
(***************************************************************************)
CustomChildren ==
  [m \in Mods |-> IF m = "net" THEN SequentialOf(<<"fc0">>, 1, <<>>) ELSE <<>>]

InitCustom ==
  /\ children = CustomChildren
  /\ data = FreshData
  /\ last = NoLast

NextCustom ==
  \/ \E m \in Roots : Custom(m)
  \/ StateDictCall("net")
  \/ AddOne("net")
  \/ SetFirst("net")

SpecCustom == InitCustom /\ [][NextCustom]_vars

(***************************************************************************)
(* Access by name (net.Linear_1) and by position (net[0], net[2][0]).      *)
(***************************************************************************)
GetChild(m, name) ==
  children[m][CHOOSE i \in 1..Len(children[m]) : children[m][i][1] = name][2]

\* 0-based position, as in net[2][0]
ChildAt(m, pos) == children[m][pos + 1][2]

(***************************************************************************)
(* Reference notions the properties are stated with.                       *)
(***************************************************************************)
\* the attachment paths below m: sequences of child names, at most fuel long
RECURSIVE PathsFrom(_, _)
PathsFrom(m, fuel) ==
  {<<>>} \cup
  (IF fuel = 0 THEN {}
   ELSE UNION {{<<children[m][i][1]>> \o q : q \in PathsFrom(children[m][i][2], fuel - 1)} :
               i \in 1..Len(children[m])})

\* the module an attachment path leads to
RECURSIVE Resolve(_, _)
Resolve(m, path) ==
  IF path = <<>> THEN m ELSE Resolve(GetChild(m, Head(path)), Tail(path))

\* the dotted name of a parameter: ancestor names and the parameter name
\* joined with ".", the root's own name left out
RECURSIVE Dotted(_, _)
Dotted(path, pname) ==
  IF path = <<>> THEN pname ELSE Head(path) \o "." \o Dotted(Tail(path), pname)

\* attachment paths to Parameters: <<path, parameter name>>
ParamPaths(root) ==
  {pp \in PathsFrom(root, Cardinality(Mods)) \X {"weight", "bias"} :
     <<Resolve(root, pp[1]), pp[2]>> \in Params}

\* number of chains of distinct parent instances leading from r to m
RECURSIVE SumOver(_, _, _)
SumOver(S, m, fuel) ==
  IF S = {} THEN 0
  ELSE LET c == CHOOSE x \in S : TRUE
       IN (IF c = m THEN 1 ELSE IF fuel = 0 THEN 0
           ELSE SumOver(ChildSet(c), m, fuel - 1))
          + SumOver(S \ {c}, m, fuel)

NumChains(r, m) == SumOver({r}, m, Cardinality(Mods))

\* the composition of the children of a Sequential, written from the last
\* child inwards: child_n(child_{n-1}(... child_1(x)))
RECURSIVE RefEval(_, _), RefPrefix(_, _, _)
RefPrefix(m, n, x) ==
  IF n = 0 THEN x ELSE RefEval(children[m][n][2], RefPrefix(m, n - 1, x))

RefEval(m, x) ==
  IF m \in Sequentials THEN RefPrefix(m, Len(children[m]), x)
  ELSE IF m \in Linears THEN LinearForward(m, x)
  ELSE ReLUForward(x)

Abs(v) == IF v < 0 THEN -v ELSE v

(***************************************************************************)
(* Properties.                                                             *)
(***************************************************************************)

\* the keys of root.state_dict() whose attachment path leads to the module
\* instance that the path of key leads to, under the same parameter name
TiedKeys(root, key) ==
  {Dotted(q[1], q[2]) : q \in {q \in ParamPaths(root) :
     \E pp \in ParamPaths(root) :
        /\ Dotted(pp[1], pp[2]) = key
        /\ q[2] = pp[2]
        /\ Resolve(root, q[1]) = Resolve(root, pp[1])}}

\* C1 (checked under SpecTied): in every state reached from the tied network
\* by apply calls and direct writes, all attachment paths of one module
\* instance are keys of state_dict() and resolve to the same Parameter
\* identity (hence to equal values), and after a write of 42 through one key
\* the value 42 is read through every key tied to it.
TiedParameterIdentity ==
  /\ \A root \in Roots :
       LET sd == StateDict(root)
       IN /\ sd.ok
          /\ \A pp \in ParamPaths(root), q \in ParamPaths(root) :
               (Resolve(root, pp[1]) = Resolve(root, q[1]) /\ pp[2] = q[2]) =>
                 /\ Dotted(pp[1], pp[2]) \in DOMAIN sd.dict
                 /\ Dotted(q[1], q[2]) \in DOMAIN sd.dict
                 /\ sd.dict[Dotted(pp[1], pp[2])] = sd.dict[Dotted(q[1], q[2])]
                 /\ data[sd.dict[Dotted(pp[1], pp[2])]] = data[sd.dict[Dotted(q[1], q[2])]]
  /\ last.op = "set_first" =>
       \A k \in TiedKeys(last.root, last.key) :
          /\ k \in DOMAIN StateDict(last.root).dict
          /\ data[StateDict(last.root).dict[k]][<<1, 1>>] = 42

\* C1 witness: after an apply, 42 was written through the path of position 2
\* and is read through the path of position 3, the weights of the other
\* layers holding other values
TiedWriteSeenThroughOtherPath ==
  /\ last.op = "set_first" /\ last.root = "net"
  /\ last.key = "2.linear_shared.weight"
  /\ "3.linear_shared.weight" \in TiedKeys("net", "2.linear_shared.weight")
  /\ data[StateDict("net").dict["3.linear_shared.weight"]][<<1, 1>>] = 42
  /\ data[<<ChildAt(ChildAt("net", 3), 0), "weight">>][<<1, 2>>] = 7
  /\ data[<<"fc0", "weight">>][<<1, 1>>] = 7

\* C3 (checked under SpecTied): the root has 5 children with the block shared
\* at positions 2 and 3, and after apply(net, constant(7)) the initializer
\* was called exactly once on the shared block and once on its Linear, whose
\* weight is all 7.
SharedInitialisedOnce ==
  /\ Len(children["net"]) = 5
  /\ ChildAt("net", 2) = "shared" /\ ChildAt("net", 3) = "shared"
  /\ (last.op = "apply" /\ last.root = "net" /\ last.init = [kind |-> "constant", c |-> 7]) =>
       /\ last.err = "none"
       /\ Count("shared", last.visits) = 1
       /\ Count(ChildAt("shared", 0), last.visits) = 1
       /\ data[<<ChildAt("shared", 0), "weight">>] = Fill(7)

\* C3 witness: apply(net, constant(7)) has run on the tied network, whose
\* shared Linear held another value before (the call is not a repetition)
SharedApplyRan ==
  /\ last.op = "apply" /\ last.root = "net" /\ ~last.again
  /\ last.init = [kind |-> "constant", c |-> 7]
  /\ Count("fcS", last.visits) = 1
  /\ data[<<"fcS", "weight">>] = Fill(7)

ApplySharedUnderOneParent ==
  /\ last.op = "apply" /\ last.err = "none" /\ last.root = "net"
  /\ Len(children["net"]) = 2
  /\ ChildAt("net", 0) = ChildAt("net", 1)
  /\ IsLinear(ChildAt("net", 0))
  /\ Count(ChildAt("net", 0), last.visits) = 1

RECURSIVE NumParamPaths(_)
NumParamPaths(m) ==
  Len(ParamNames(m))
  + SumTo([i \in 1..Len(children[m]) |-> NumParamPaths(children[m][i][2])], Len(children[m]))

FlattenComplete ==
  last.op = "state_dict" =>
    /\ (last.err = "none") = AcyclicFrom(last.root)
    /\ last.err = "none" =>
         /\ DOMAIN last.dict = {Dotted(pp[1], pp[2]) : pp \in ParamPaths(last.root)}
         /\ \A pp \in ParamPaths(last.root) :
               last.dict[Dotted(pp[1], pp[2])] = <<Resolve(last.root, pp[1]), pp[2]>>
         /\ Cardinality(DOMAIN last.dict) = NumParamPaths(last.root)
         /\ Cardinality(DOMAIN last.dict) = Cardinality(ParamPaths(last.root))
         /\ \A k \in DOMAIN last.dict : last.dict[k] \in Params

\* C4 witness: a state_dict() with two keys for one shared Parameter, a key
\* of a nested block, a bias key, and no bias key for the bias=False layer
FlattenSharedAndNested ==
  /\ last.op = "state_dict" /\ last.err = "none" /\ last.root = "net"
  /\ DOMAIN last.dict = {"a.a.weight", "b.weight"}
  /\ last.dict["a.a.weight"] = last.dict["b.weight"]
  /\ last.dict["b.weight"] = <<"fc0", "weight">>

ConstantApplyIdempotent ==
  /\ [](last.op = "apply" /\ last.init.kind = "constant" /\ last.err = "none" =>
          \A m \in Reach(last.root) \cap Linears :
             data[<<m, "weight">>] = Fill(last.init.c))
  /\ [][(last'.op = "apply" /\ last'.again /\ last'.init.kind = "constant") =>
          data' = data]_vars

\* C6 witness: the second of two equal constant apply calls has run on a
\* tree holding two Linear layers, one of them reached through a sub-block
ConstantAppliedTwice ==
  /\ last.op = "apply" /\ last.again /\ last.err = "none"
  /\ last.init = [kind |-> "constant", c |-> 7]
  /\ {"fc0", "fcB"} \subseteq Reach(last.root)
  /\ "shared" \in Reach(last.root) \ {last.root}
  /\ data[<<"fc0", "weight">>] = Fill(7) /\ data[<<"fcB", "weight">>] = Fill(7)

\* C7 (checked under SpecTied): a forward evaluation that returns yields the
\* composition of the children in attachment order, one application per
\* attachment point (the shared block is applied at position 2 and again at
\* position 3), computed from the tree, the Parameter values and the input;
\* the evaluation changes no Parameter and no attachment.
ForwardInAttachmentOrder ==
  /\ [](last.op = "forward" =>
          /\ last.err = "none"
          /\ last.y = RefEval(last.root, last.x)
          /\ last.root = "net" =>
               last.y = RefEval("fc4",
                          RefEval("shared",
                            RefEval("shared",
                              RefEval("relu1", RefEval("fc0", last.x))))))
  /\ [][last'.op = "forward" => (data' = data /\ children' = children)]_vars

\* C7 witness: net(x) was evaluated on weights under which the order of the
\* layers matters (the output differs from the one of the reversed order)
ForwardOrderMatters ==
  /\ last.op = "forward" /\ last.root = "net" /\ last.err = "none"
  /\ last.y # RefEval("fc0",
                RefEval("relu1",
                  RefEval("shared", RefEval("shared", RefEval("fc4", last.x)))))
  /\ last.y # last.x

\* C8 as stated (checked under Spec): after every sequence of add_module
\* calls no module is reachable from itself through child links.
OwnershipAcyclic == Acyclic

\* C8 as amended (checked under Spec): add_module makes no cycle check; a
\* successful attach keeps the child links acyclic exactly when the parent
\* is not reachable from the attached child (attaching one instance at
\* several points never creates a cycle; attaching a module under itself or
\* under one of its descendants does), and apply and state_dict return
\* exactly when no cycle is reachable from their root.
AcyclicUnlessAttachedBelowItself ==
  /\ [][(last'.op = "add_module" /\ last'.err = "none" /\ Acyclic) =>
          (Acyclic' = (last'.root \notin Reach(last'.child)))]_vars
  /\ [](last.op \in {"apply", "state_dict"} =>
          ((last.err = "none") = AcyclicFrom(last.root)))

\* C8 witness: apply returned on a tree in which one instance is attached at
\* two points of one parent and at a point of another
ApplyReturnsOnSharedTree ==
  /\ last.op = "apply" /\ last.err = "none" /\ last.root = "net"
  /\ Acyclic
  /\ Len(children["net"]) = 2 /\ Len(children["shared"]) = 1
  /\ ChildAt("net", 0) = "shared"
  /\ ChildAt("net", 1) = ChildAt("shared", 0)

\* the state that refutes the original statement: net attached under its own
\* descendant shared
AttachedUnderDescendant ==
  /\ last.op = "add_module" /\ last.err = "none"
  /\ last.root = "shared" /\ last.child = "net"
  /\ "shared" \in ChildSet("net")
  /\ ~Acyclic

\* C9 (checked under Spec): an apply call changes no attachment, no bias and
\* no Parameter of a module that is not reachable from its root.
ApplyFrame ==
  [][last'.op = "apply" =>
       /\ children' = children
       /\ \A pid \in Params :
            (pid[2] # "weight" \/ pid[1] \notin Reach(last'.root)) =>
               data'[pid] = data[pid]]_vars

\* C9 witness: apply(shared, constant) ran on a sub-block of net that holds
\* the Linear with a bias, while net holds another Linear outside the
\* sub-block; the sub-block's weight is the constant, the bias and the
\* outside weight are not
ApplyOnSubBlock ==
  /\ last.op = "apply" /\ last.root = "shared" /\ last.err = "none"
  /\ last.init = [kind |-> "constant", c |-> 7]
  /\ "shared" \in ChildSet("net") /\ "fc0" \in ChildSet("net")
  /\ ChildSet("shared") = {"fcB"}
  /\ data[<<"fcB", "weight">>] = Fill(7)
  /\ data[<<"fcB", "bias">>] # FillVec(7)
  /\ data[<<"fc0", "weight">>] = Fill(-1)

\* C10 (checked under SpecCustom): right after custom(m) every entry of
\* m[0].weight is 0 or has a magnitude above 5 and at most 10; an entry is 0
\* when its draw had a magnitude of at most 5 and is its draw otherwise.
CustomBimodal ==
  (last.op = "custom" /\ last.err = "none") =>
     LET w == data[<<ChildAt(last.root, 0), "weight">>]
     IN /\ DOMAIN w = Rows \X Rows
        /\ \A ij \in Idx :
             /\ w[ij] = 0 \/ (Abs(w[ij]) > 5 /\ Abs(w[ij]) <= 10)
             /\ Abs(last.draw[ij]) <= 5 => w[ij] = 0
             /\ Abs(last.draw[ij]) > 5 => w[ij] = last.draw[ij]

\* C10 witness: custom(m) ran on a draw holding the boundary value 5, which
\* was zeroed, next to the value 6, which was kept
CustomBoundaryDraw ==
  /\ last.op = "custom" /\ last.err = "none"
  /\ \E ij \in Idx, kl \in Idx :
       /\ last.draw[ij] = 5 /\ data[<<ChildAt(last.root, 0), "weight">>][ij] = 0
       /\ last.draw[kl] = 6 /\ data[<<ChildAt(last.root, 0), "weight">>][kl] = 6

====
